---- MODULE Spec2Model ----
(***************************************************************************)
(* Stratified sampling pipeline of src/src/sampling.py:                    *)
(* prepare_sampling_columns and build_stratified_sample.                   *)
(*                                                                         *)
(* A data frame is a sequence of rows; a row is a function from column     *)
(* names to values, plus the field "rowid" that identifies the population  *)
(* Record the row is (its position in the input frame).  Strings are       *)
(* sequences of one-character strings.  A cell value is Null (NaN/None),   *)
(* StrV(s) or IntV(v).                                                     *)
(***************************************************************************)
EXTENDS Integers, Sequences, FiniteSets, TLC

VARIABLES
    df,          \* the input frame: rows over the input columns
    columns,     \* df.columns
    n,           \* requested target size
    pc,          \* position in build_stratified_sample
    base,        \* line 107-108
    per_strata,  \* line 112: sequence of <<strata key, planned count>>
    it,          \* position of the for loop of line 115 in per_strata
    parts,       \* line 114
    sample,      \* line 123-125, and the returned frame
    rng,         \* what RandomState(seed) has been seen to produce, per length
    err,         \* the exception that ended the run, "" if none
    run,         \* "first" or "second" run on this input
    prev         \* the frame the previous run returned

vars == <<df, columns, n, pc, base, per_strata, it, parts, sample, rng, err, run, prev>>

\* ---------------------------------------------------------------- bounds

MaxPop == 4
MaxLocLen == 3
MaxPeriodLen == 5

\* ---------------------------------------------------------------- values

Null == [kind |-> "null"]
StrV(s) == [kind |-> "str", s |-> s]
IntV(v) == [kind |-> "int", v |-> v]

Min(a, b) == IF a <= b THEN a ELSE b
Abs(a) == IF a >= 0 THEN a ELSE -a
Range(s) == {s[j] : j \in DOMAIN s}

RECURSIVE Flatten(_)
Flatten(ss) == IF ss = <<>> THEN <<>> ELSE Head(ss) \o Flatten(Tail(ss))

DigitChars == <<"0", "1", "2", "3", "4", "5", "6", "7", "8", "9">>
IsDigit(c) == c \in Range(DigitChars)
DigitValue(c) == CHOOSE d \in 0..9 : DigitChars[d + 1] = c

\* str(int) for a non-negative integer
RECURSIVE Digits(_)
Digits(v) == IF v < 10 THEN <<DigitChars[v + 1]>>
             ELSE Append(Digits(v \div 10), DigitChars[(v % 10) + 1])

RECURSIVE DecValue(_)
DecValue(s) == IF s = <<>> THEN 0
               ELSE 10 * DecValue(SubSeq(s, 1, Len(s) - 1)) + DigitValue(s[Len(s)])

\* Series.astype(str) on one cell
astype_str(v) ==
    CASE v.kind = "null" -> <<"n", "a", "n">>
      [] v.kind = "str" -> v.s
      [] v.kind = "int" -> Digits(v.v)

\* str.split(): split on runs of whitespace, no empty tokens
RECURSIVE SplitFrom(_, _, _)
SplitFrom(s, cur, acc) ==
    IF s = <<>> THEN (IF cur = <<>> THEN acc ELSE Append(acc, cur))
    ELSE IF Head(s) = " "
         THEN SplitFrom(Tail(s), <<>>, IF cur = <<>> THEN acc ELSE Append(acc, cur))
         ELSE SplitFrom(Tail(s), Append(cur, Head(s)), acc)

str_split(s) == SplitFrom(s, <<>>, <<>>)

Unknown == <<"U", "n", "k", "n", "o", "w", "n">>
NA == <<"<", "N", "A", ">">>

\* .str.split().str[1].fillna("Unknown")
district_of(v) ==
    LET toks == str_split(astype_str(v))
    IN IF Len(toks) >= 2 THEN toks[2] ELSE Unknown

\* .str[:4]
str_slice4(s) == SubSeq(s, 1, Min(4, Len(s)))

RECURSIVE LStrip(_)
LStrip(s) == IF s # <<>> /\ Head(s) = " " THEN LStrip(Tail(s)) ELSE s

RECURSIVE RStrip(_)
RStrip(s) == IF s # <<>> /\ s[Len(s)] = " " THEN RStrip(SubSeq(s, 1, Len(s) - 1)) ELSE s

\* pd.to_numeric(errors="coerce") on one string of the characters modelled
\* (digits, ".", blanks, letters): blanks around the number are skipped, the
\* number is digits with at most one decimal point and at least one digit;
\* anything else is coerced to NaN.  A number written with a decimal point is
\* a float.
to_numeric(s) ==
    LET t == RStrip(LStrip(s))
        dots == {j \in DOMAIN t : t[j] = "."}
        dot == IF dots = {} THEN Len(t) + 1 ELSE CHOOSE j \in dots : TRUE
        ip == SubSeq(t, 1, dot - 1)
        fp == SubSeq(t, dot + 1, Len(t))
        wellFormed == /\ Cardinality(dots) <= 1
                      /\ \A j \in DOMAIN ip : IsDigit(ip[j])
                      /\ \A j \in DOMAIN fp : IsDigit(fp[j])
                      /\ Len(ip) + Len(fp) >= 1
    IN IF ~wellFormed THEN [kind |-> "nan"]
       ELSE IF dots = {} THEN [kind |-> "int", v |-> DecValue(ip)]
       ELSE [kind |-> "float", whole |-> DecValue(ip),
             integral |-> \A j \in DOMAIN fp : fp[j] = "0"]

year_parsed(row) == to_numeric(str_slice4(astype_str(row["contract_yyyymm"])))

\* .astype("Int64") on one parsed cell; the cast of the column raises
\* TypeError when a float is not the value of an integer (see Int64Raises)
Int64_of(p) ==
    CASE p.kind = "nan" -> Null
      [] p.kind = "int" -> IntV(p.v)
      [] p.kind = "float" -> IntV(p.whole)

Int64Raises(frame) ==
    \E j \in DOMAIN frame :
        LET p == year_parsed(frame[j]) IN p.kind = "float" /\ ~p.integral

\* Int64 .astype(str)
year_str(y) == IF y.kind = "null" THEN NA ELSE Digits(y.v)

Extend(row, f, v) == [c \in DOMAIN row \cup {f} |-> IF c = f THEN v ELSE row[c]]

\* lines 65-69, on one row of a frame that has both source columns
prepare_row(row) ==
    LET d == district_of(row["sigungu"])
        y == Int64_of(year_parsed(row))
    IN Extend(Extend(Extend(row, "district", StrV(d)), "year", y),
              "strata", StrV(d \o <<"_">> \o year_str(y)))

prepare_sampling_columns(frame) == [j \in DOMAIN frame |-> prepare_row(frame[j])]

\* ---------------------------------------------------------------- frames

\* line 98-106
required == {"sigungu", "apartment_name", "area_m2", "built_year",
             "contract_yyyymm", "floor", "price_10k_krw"}

Columns(row) == DOMAIN row \ {"rowid"}

Project(row, cols) == [c \in (DOMAIN row \cap cols) \cup {"rowid"} |-> row[c]]

\* df[[c for c in required if c in df.columns]].copy()
select_required(frame) == [j \in DOMAIN frame |-> Project(frame[j], required)]

\* DataFrame.drop(columns=cols)
drop_columns(frame, cols) ==
    [j \in DOMAIN frame |-> Project(frame[j], Columns(frame[j]) \ cols)]

\* sample.drop(columns=["strata"]), line 127
returned_frame_all_derived(frame) == drop_columns(frame, {"district", "year", "strata"})
returned_frame(frame) == drop_columns(frame, {"strata"})

strata_of(frame) == [j \in DOMAIN frame |-> frame[j]["strata"].s]

chunk_other(frame, s) == SelectSeq(frame, LAMBDA r : r["strata"].s # s)

\* base[base["strata"] == s], line 118
chunk_of(frame, s) == SelectSeq(frame, LAMBDA r : r["strata"].s = s)

\* ---------------------------------------------------------------- allocation

Count(keys, s) == Cardinality({j \in DOMAIN keys : keys[j] = s})

RECURSIVE FirstSeen(_, _)
FirstSeen(keys, acc) ==
    IF keys = <<>> THEN acc
    ELSE FirstSeen(Tail(keys),
                   IF Head(keys) \in Range(acc) THEN acc ELSE Append(acc, Head(keys)))

\* the keys in descending order of count, keys of equal count in the order of
\* their first row (value_counts sorts the hash table's first-seen order with
\* a sort that is stable on frames this small)
RECURSIVE SortDesc(_, _, _)
SortDesc(todo, keys, acc) ==
    IF todo = <<>> THEN acc
    ELSE LET x == Head(todo)
             pos == Cardinality({j \in DOMAIN acc : Count(keys, acc[j]) >= Count(keys, x)})
         IN SortDesc(Tail(todo), keys,
                     SubSeq(acc, 1, pos) \o <<x>> \o SubSeq(acc, pos + 1, Len(acc)))

\* base["strata"].value_counts(dropna=False), line 110: <<key, count>> pairs
value_counts(keys) ==
    LET order == SortDesc(FirstSeen(keys, <<>>), keys, <<>>)
    IN [j \in DOMAIN order |-> <<order[j], Count(keys, order[j])>>]

round_down(num, den) == num \div den

\* round() of numpy on num/den >= 0: to the nearest integer, halves to even
round_half_even(num, den) ==
    LET q == num \div den
        r == num % den
    IN IF 2 * r > den THEN q + 1
       ELSE IF 2 * r < den THEN q
       ELSE IF q % 2 = 0 THEN q ELSE q + 1

plan_ceil(frame, target) ==
    LET counts == value_counts(strata_of(frame))
        total == Len(frame)
    IN [j \in DOMAIN counts |->
           <<counts[j][1], (counts[j][2] * target + total - 1) \div total>>]

\* weights taken over the number of strata instead of counts.sum()
plan_by_strata_count(frame, target) ==
    LET counts == value_counts(strata_of(frame))
    IN [j \in DOMAIN counts |->
           <<counts[j][1], round_half_even(counts[j][2] * target, Len(counts))>>]

\* lines 110-112: (counts / counts.sum() * n).round().astype(int)
plan_per_strata(frame, target) ==
    LET counts == value_counts(strata_of(frame))
        total == Len(frame)
    IN [j \in DOMAIN counts |->
           <<counts[j][1], round_half_even(counts[j][2] * target, total)>>]

\* ---------------------------------------------------------------- random draws

\* the sequences of k distinct positions of 1..L that start with q
RECURSIVE Extensions(_, _, _)
Extensions(q, L, k) ==
    IF Len(q) >= k THEN {q}
    ELSE UNION {Extensions(Append(q, x), L, k) : x \in (1..L) \ Range(q)}

\* a generator that was not seeded: any k distinct positions
unseeded_choice(seen, L, k) == Extensions(<<>>, L, k)

\* RandomState(seed).choice(L, size=k, replace=False) is the first k entries
\* of RandomState(seed).permutation(L): a function of the seed and of L.
\* seen is the prefix of that permutation earlier draws of this seed showed.
random_state_choice(seen, L, k) ==
    IF Len(seen) >= k THEN {SubSeq(seen, 1, k)} ELSE Extensions(seen, L, k)

Longer(a, b) == IF Len(a) >= Len(b) THEN a ELSE b

take_with_replacement(frame, locs) == [j \in DOMAIN locs |-> frame[locs[1]]]

\* DataFrame.take(locs) of DataFrame.sample
take(frame, locs) == [j \in DOMAIN locs |-> frame[locs[j]]]

\* min(k, len(chunk)), line 121
draw_size_off_by_one(k, L) == Min(k, L - 1)
draw_size(k, L) == Min(k, L)

overshoots_off_by_one(frame, target) == Len(frame) > target + 1

\* len(sample) > n, line 124
overshoots(frame, target) == Len(frame) > target

\* ---------------------------------------------------------------- inputs

Both(a, b) == StrV(a \o <<" ">> \o b)

\* the kinds of input rows of the sampling runs: two districts of one year, a
\* one-token location with an unparsable period, a period that is no integer
RawRows ==
    << [sigungu |-> Both(<<"s">>, <<"g">>), contract_yyyymm |-> IntV(202312)],
       [sigungu |-> Both(<<"s">>, <<"m">>), contract_yyyymm |-> IntV(202312)],
       [sigungu |-> StrV(<<"s">>), contract_yyyymm |-> StrV(<<"x">>)],
       [sigungu |-> Null, contract_yyyymm |-> StrV(<<"2", ".", "5">>)] >>

MakeRow(j, raw, cols) ==
    [c \in cols \cup {"rowid"} |->
        IF c = "rowid" THEN j
        ELSE IF c \in {"sigungu", "contract_yyyymm"} THEN raw[c]
        ELSE IntV(j)]

MakeFrame(raws, cols) == [j \in DOMAIN raws |-> MakeRow(j, raws[j], cols)]

SeqsUpTo(S, m) == UNION {[1..k -> S] : k \in 0..m}
NonEmptySeqsUpTo(S, m) == UNION {[1..k -> S] : k \in 1..m}

\* 10 Records, 2 in one stratum and 8 in another
ScenarioRows == [j \in 1..10 |-> IF j \in {1, 6} THEN RawRows[1] ELSE RawRows[2]]

Populations ==
    {[j \in DOMAIN ks |-> RawRows[ks[j]]] : ks \in NonEmptySeqsUpTo(DOMAIN RawRows, MaxPop)}
    \cup {ScenarioRows}

ColumnChoices ==
    {required \cup {"jibun"}, required \ {"floor"}, required \ {"sigungu"}}

TargetSizes == 1..(MaxPop + 1)

\* ---------------------------------------------------------------- the run

Init ==
    /\ columns \in ColumnChoices
    /\ \E raws \in Populations : df = MakeFrame(raws, columns)
    /\ n \in TargetSizes
    /\ pc = "select"
    /\ base = <<>>
    /\ per_strata = <<>>
    /\ it = 1
    /\ parts = <<>>
    /\ sample = <<>>
    /\ rng = [L \in 1..Len(df) |-> <<>>]
    /\ err = ""
    /\ run = "first"
    /\ prev = <<>>

Raise(e) ==
    /\ pc' = "raised"
    /\ err' = e

\* line 107
Select ==
    /\ pc = "select"
    /\ base' = select_required(df)
    /\ pc' = "prepare"
    /\ UNCHANGED <<df, columns, n, per_strata, it, parts, sample, rng, err, run, prev>>

HasSourceColumns(frame) ==
    \A j \in DOMAIN frame : {"sigungu", "contract_yyyymm"} \subseteq Columns(frame[j])

\* line 108 / lines 65-69
Prepare ==
    /\ pc = "prepare"
    /\ HasSourceColumns(base)
    /\ ~Int64Raises(base)
    /\ base' = prepare_sampling_columns(base)
    /\ pc' = "plan"
    /\ UNCHANGED <<df, columns, n, per_strata, it, parts, sample, rng, err, run, prev>>

\* line 66: out["sigungu"] on a frame without the column
PrepareKeyError ==
    /\ pc = "prepare"
    /\ ~HasSourceColumns(base)
    /\ Raise("KeyError")
    /\ UNCHANGED <<df, columns, n, base, per_strata, it, parts, sample, rng, run, prev>>

\* line 67: .astype("Int64") on a float that is no integer
PrepareTypeError ==
    /\ pc = "prepare"
    /\ HasSourceColumns(base)
    /\ Int64Raises(base)
    /\ Raise("TypeError")
    /\ UNCHANGED <<df, columns, n, base, per_strata, it, parts, sample, rng, run, prev>>

\* lines 110-114
Plan ==
    /\ pc = "plan"
    /\ per_strata' = plan_per_strata(base, n)
    /\ it' = 1
    /\ parts' = <<>>
    /\ pc' = "draw"
    /\ UNCHANGED <<df, columns, n, base, sample, rng, err, run, prev>>

\* lines 115-120: a stratum whose plan is 0 (or whose chunk is empty)
SkipStratum ==
    /\ pc = "draw"
    /\ it <= Len(per_strata)
    /\ \/ per_strata[it][2] <= 0
       \/ Len(chunk_of(base, per_strata[it][1])) = 0
    /\ it' = it + 1
    /\ UNCHANGED <<df, columns, n, pc, base, per_strata, parts, sample, rng, err, run, prev>>

\* lines 115-121
DrawStratum ==
    /\ pc = "draw"
    /\ it <= Len(per_strata)
    /\ per_strata[it][2] > 0
    /\ LET chunk == chunk_of(base, per_strata[it][1])
           L == Len(chunk)
           k == draw_size(per_strata[it][2], L)
       IN /\ L > 0
          /\ \E locs \in random_state_choice(rng[L], L, k) :
                /\ parts' = Append(parts, take(chunk, locs))
                /\ rng' = [rng EXCEPT ![L] = Longer(rng[L], locs)]
    /\ it' = it + 1
    /\ UNCHANGED <<df, columns, n, pc, base, per_strata, sample, err, run, prev>>

\* line 123
Concat ==
    /\ pc = "draw"
    /\ it > Len(per_strata)
    /\ parts # <<>>
    /\ sample' = Flatten(parts)
    /\ pc' = "trim"
    /\ UNCHANGED <<df, columns, n, base, per_strata, it, parts, rng, err, run, prev>>

\* line 123: pd.concat of an empty list raises "No objects to concatenate"
ConcatValueError ==
    /\ pc = "draw"
    /\ it > Len(per_strata)
    /\ parts = <<>>
    /\ Raise("ValueError")
    /\ UNCHANGED <<df, columns, n, base, per_strata, it, parts, sample, rng, run, prev>>

\* lines 124-125
Trim ==
    /\ pc = "trim"
    /\ overshoots(sample, n)
    /\ LET L == Len(sample)
       IN \E locs \in random_state_choice(rng[L], L, n) :
             /\ sample' = take(sample, locs)
             /\ rng' = [rng EXCEPT ![L] = Longer(rng[L], locs)]
    /\ pc' = "return"
    /\ UNCHANGED <<df, columns, n, base, per_strata, it, parts, err, run, prev>>

\* line 124, the candidate does not exceed n
NoTrim ==
    /\ pc = "trim"
    /\ ~overshoots(sample, n)
    /\ pc' = "return"
    /\ UNCHANGED <<df, columns, n, base, per_strata, it, parts, sample, rng, err, run, prev>>

\* line 127
Return ==
    /\ pc = "return"
    /\ sample' = returned_frame(sample)
    /\ pc' = "done"
    /\ UNCHANGED <<df, columns, n, base, per_strata, it, parts, rng, err, run, prev>>

\* a second call with the same df, n and seed
Rerun ==
    /\ pc = "done"
    /\ run = "first"
    /\ run' = "second"
    /\ prev' = sample
    /\ pc' = "select"
    /\ base' = <<>>
    /\ per_strata' = <<>>
    /\ it' = 1
    /\ parts' = <<>>
    /\ sample' = <<>>
    /\ UNCHANGED <<df, columns, n, rng, err>>

Next ==
    \/ Select
    \/ Prepare
    \/ PrepareKeyError
    \/ PrepareTypeError
    \/ Plan
    \/ SkipStratum
    \/ DrawStratum
    \/ Concat
    \/ ConcatValueError
    \/ Trim
    \/ NoTrim
    \/ Return

Spec == Init /\ [][Next]_vars

\* the repeated runs start from the inputs that a first run can return on
InitRepeat ==
    /\ Init
    /\ columns = required \cup {"jibun"}
    /\ ~Int64Raises(df)
    /\ Len(df) <= MaxPop

NextRepeat ==
    \/ Select
    \/ Prepare
    \/ Plan
    \/ SkipStratum
    \/ DrawStratum
    \/ Concat
    \/ ConcatValueError
    \/ Trim
    \/ NoTrim
    \/ Return
    \/ Rerun

SpecRepeat == InitRepeat /\ [][NextRepeat]_vars

\* ------------------------------------------- prepare_sampling_columns alone

LocationValues ==
    {Null} \cup {StrV(s) : s \in SeqsUpTo({"a", "b", " "}, MaxLocLen)}

PeriodValues ==
    {Null, IntV(202312)} \cup {StrV(s) : s \in SeqsUpTo({"2", ".", "x", " "}, MaxPeriodLen)}

InitPrep ==
    /\ columns = required
    /\ \E loc \in LocationValues, per \in PeriodValues :
          df = MakeFrame(<<[sigungu |-> loc, contract_yyyymm |-> per]>>, columns)
    /\ n = 1
    /\ pc = "prepare"
    /\ base = select_required(df)
    /\ per_strata = <<>>
    /\ it = 1
    /\ parts = <<>>
    /\ sample = <<>>
    /\ rng = [L \in 1..Len(df) |-> <<>>]
    /\ err = ""
    /\ run = "first"
    /\ prev = <<>>

NextPrep == Prepare \/ PrepareTypeError

SpecPrep == InitPrep /\ [][NextPrep]_vars

\* ---------------------------------------------------------------- properties

Candidate == Flatten(parts)

\* the loop of lines 115-121 has ended and line 123 did not raise
AfterLoop == pc \in {"trim", "return", "done"}

RowIds(frame) == {frame[j]["rowid"] : j \in DOMAIN frame}

Unique(frame) ==
    \A i, j \in DOMAIN frame : i # j => frame[i]["rowid"] # frame[j]["rowid"]

\* the row carries the values of the population Record it names
IsRecord(row) ==
    /\ row["rowid"] \in DOMAIN df
    /\ \A c \in Columns(row) \cap columns : row[c] = df[row["rowid"]][c]

Keys == Range(strata_of(base))
PopCount(s) == Count(strata_of(base), s)
FrameCount(frame, s) ==
    Cardinality({j \in DOMAIN frame : base[frame[j]["rowid"]]["strata"].s = s})

RECURSIVE SumPlan(_)
SumPlan(ps) == IF ps = <<>> THEN 0 ELSE Head(ps)[2] + SumPlan(Tail(ps))

\* the integers nearest to num/den
Nearest(num, den) == {k \in 0..(num + 1) : 2 * Abs(k * den - num) <= den}

\* C1: a returned Sample has exactly min(n, |candidate|) rows, the candidate
\* being the concatenation of the per-stratum draws: trimmed to n when
\* larger, returned as it is otherwise; so |Sample| <= n.
C1_SampleSize ==
    pc = "done" =>
        /\ Len(sample) = Min(n, Len(Candidate))
        /\ Len(sample) <= n
        /\ (Len(Candidate) <= n => RowIds(sample) = RowIds(Candidate))

C1_Witness == pc = "done" /\ Len(Candidate) > n /\ Len(sample) = n

\* C2: every row of the candidate and of the Sample is one Record of the
\* population and no Record appears twice, after the per-stratum draws and
\* after the trim.
C2_Unique ==
    /\ pc \in {"draw", "trim", "return", "done"} =>
          /\ Unique(Candidate)
          /\ \A j \in DOMAIN Candidate : IsRecord(Candidate[j])
    /\ AfterLoop =>
          /\ Unique(sample)
          /\ \A j \in DOMAIN sample : IsRecord(sample[j])

C2_Witness ==
    /\ pc = "done"
    /\ Len(Candidate) > n
    /\ Len(sample) >= 2
    /\ Cardinality({base[r]["strata"] : r \in RowIds(sample)}) >= 2

\* C3: before trimming, the candidate holds exactly min(plan_s, count_s)
\* Records of every stratum s, plan_s being n*count_s/total rounded to the
\* nearest integer, none when plan_s = 0; and the population of 2 + 8
\* Records with n = 5 returns 5 rows, 1 of the first stratum and 4 of the
\* second.
C3_PerStratumDraw ==
    AfterLoop =>
        /\ \A s \in Keys :
              \E k \in Nearest(n * PopCount(s), Len(base)) :
                  FrameCount(Candidate, s) = Min(k, PopCount(s))
        /\ \A j \in DOMAIN per_strata :
              /\ per_strata[j][2] \in Nearest(n * PopCount(per_strata[j][1]), Len(base))
              /\ FrameCount(Candidate, per_strata[j][1])
                    = Min(per_strata[j][2], PopCount(per_strata[j][1]))
        /\ (pc = "done" /\ Len(df) = 10 /\ n = 5) =>
              /\ Len(sample) = 5
              /\ {FrameCount(sample, s) : s \in Keys} = {1, 4}
              /\ \A s \in Keys : PopCount(s) = 2 <=> FrameCount(sample, s) = 1

C3_Witness ==
    /\ pc = "done"
    /\ Len(df) = 10
    /\ n = 5
    /\ Len(sample) = 5
    /\ \E s \in Keys : PopCount(s) = 8 /\ FrameCount(sample, s) = 4

\* C4: once the population is prepared and planned, the run is not aborted:
\* skipped and under-fulfilled strata never stop it, also when every plan
\* rounds to 0.
C4_NeverAborts == per_strata # <<>> => pc # "raised"

\* C5: with n larger than the population every stratum's draw is its whole
\* population, the Sample holds every Record exactly once and nothing is
\* trimmed.
C5_WholePopulation ==
    (AfterLoop /\ n > Len(df)) =>
        /\ \A s \in Keys : FrameCount(Candidate, s) = PopCount(s)
        /\ RowIds(sample) = DOMAIN df
        /\ Len(sample) = Len(df)
        /\ Unique(sample)
        /\ ~overshoots(Candidate, n)

C5_Witness ==
    /\ pc = "done"
    /\ n > Len(df)
    /\ Cardinality(Keys) >= 2
    /\ \E s \in Keys : PopCount(s) >= 2

DerivedColumns == {"district", "year", "strata"}

\* C6 as claimed: no derived column (district, year, strata) is in the
\* returned Sample.
C6_NoDerivedColumns ==
    pc = "done" => \A j \in DOMAIN sample : Columns(sample[j]) \cap DerivedColumns = {}

\* C6 as amended: the returned Sample has the selected input columns and the
\* derived district and year; only the combined strata key is dropped.
C6_OnlyStrataDropped ==
    pc = "done" =>
        \A j \in DOMAIN sample :
            Columns(sample[j]) = (required \cap columns) \cup {"district", "year"}

C6_Witness ==
    /\ pc = "done"
    /\ Len(sample) >= 1
    /\ "jibun" \in columns
    /\ "jibun" \notin Columns(sample[1])

\* C7: prepare_sampling_columns never raises and returns one row per input
\* Record, with district the second token of the location or "Unknown" and
\* year the parsed integer or null.
C7_PrepareTotal ==
    /\ pc # "raised"
    /\ pc = "plan" =>
          /\ Len(base) = Len(df)
          /\ \A j \in DOMAIN base :
                /\ base[j]["rowid"] = j
                /\ LET toks == str_split(astype_str(df[j]["sigungu"]))
                   IN base[j]["district"]
                         = StrV(IF Len(toks) >= 2 THEN toks[2] ELSE Unknown)
                /\ base[j]["year"].kind \in {"int", "null"}
                /\ base[j]["strata"].kind = "str"

\* C8: every plan is >= 0 and the plans sum to n within half the number of
\* strata.
C8_PlanSum ==
    per_strata # <<>> =>
        /\ \A j \in DOMAIN per_strata : per_strata[j][2] >= 0
        /\ 2 * Abs(SumPlan(per_strata) - n) <= Len(per_strata)
        /\ Len(per_strata) = Cardinality(Keys)

C8_Witness ==
    /\ pc = "draw"
    /\ Len(per_strata) >= 3
    /\ SumPlan(per_strata) > n

Present(s) == FrameCount(sample, s) > 0

\* C9 as claimed: a stratum present in the Sample that is at least 1% of the
\* population has a share of the Sample within one percentage point of its
\* share of the population.
C9_ShareWithinOnePoint ==
    pc = "done" =>
        \A s \in Keys :
            (Present(s) /\ 100 * PopCount(s) >= Len(df)) =>
                100 * Abs(FrameCount(sample, s) * Len(df) - PopCount(s) * Len(sample))
                    <= Len(sample) * Len(df)

\* C9 as amended: when n does not exceed the population, every stratum's
\* number of rows in the candidate (before the trim) is within half a row of
\* its proportional quota n*count_s/total.
C9_QuotaWithinHalfRow ==
    (AfterLoop /\ n <= Len(df)) =>
        \A s \in Keys :
            2 * Abs(FrameCount(Candidate, s) * Len(df) - n * PopCount(s)) <= Len(df)

C9_Witness ==
    /\ pc = "done"
    /\ n <= Len(df)
    /\ \E s \in Keys :
          /\ Present(s)
          /\ 100 * Abs(FrameCount(sample, s) * Len(df) - PopCount(s) * Len(sample))
                > Len(sample) * Len(df)

\* C10: the second run on the same input with the same n and seed returns
\* the rows the first run returned, in the same order.
C10_SameSample == (pc = "done" /\ run = "second") => sample = prev

C10_Witness ==
    /\ pc = "done"
    /\ run = "second"
    /\ Len(Candidate) > n
    /\ Len(sample) >= 2
    /\ sample = prev

\* C11: when n does not exceed the population, every plan is at most its
\* stratum's count, so every planned stratum is drawn in full (no stratum is
\* under-fulfilled), the candidate has exactly the sum of the plans rows, and
\* a returned Sample is short of n only by what rounding took from that sum.
C11_NoScarcity ==
    (per_strata # <<>> /\ n <= Len(df)) =>
        /\ \A j \in DOMAIN per_strata :
              per_strata[j][2] <= PopCount(per_strata[j][1])
        /\ \A j \in DOMAIN parts :
              \E i \in DOMAIN per_strata :
                  /\ per_strata[i][2] > 0
                  /\ Len(parts[j]) = per_strata[i][2]
                  /\ \A r \in DOMAIN parts[j] :
                        parts[j][r]["strata"].s = per_strata[i][1]
        /\ AfterLoop =>
              /\ Len(Candidate) = SumPlan(per_strata)
              /\ \A s \in Keys :
                    \A j \in DOMAIN per_strata :
                        per_strata[j][1] = s => FrameCount(Candidate, s) = per_strata[j][2]
        /\ pc = "done" => Len(sample) = Min(n, SumPlan(per_strata))

C11_Witness ==
    /\ pc = "done"
    /\ n <= Len(df)
    /\ Cardinality(Keys) >= 2
    /\ SumPlan(per_strata) < n
    /\ Len(sample) = SumPlan(per_strata)
    /\ \E j \in DOMAIN per_strata :
          /\ per_strata[j][2] > 0
          /\ per_strata[j][2] < PopCount(per_strata[j][1])

====
